---------------------------- MODULE Spec2Model ----------------------------
(***************************************************************************)
(* A model of two subsystems of forked-daapd:                              *)
(*   - src/library.c          the library thread, its scans, the command   *)
(*                            queue and the deferred update notifications  *)
(*   - src/httpd_streaming.c  the MP3 streaming sessions and the ICY       *)
(*                            metadata splicing                            *)
(* Event masks are modelled as sets of event names: a bitwise OR is a      *)
(* union, the mask 0 is the empty set.                                     *)
(***************************************************************************)
EXTENDS Integers, Sequences, FiniteSets, TLC

(***************************************************************************)
(* Bounds of the model.                                                    *)
(***************************************************************************)
\* request threads calling the public library functions
NThreads == 2
\* calls of the public library functions made in a run
MaxCalls == 2
\* streaming requests made in a run
MaxRequests == 2
\* fan-outs of encoded data made in a run
MaxSends == 1
\* encoded chunks fanned out to a fixed registry
MaxChunks == 4
\* sessions of the fixed registry
MaxSessions == 2
\* records a pipe holds before a write to it fails with EAGAIN
MaxPipe == 1
\* the track ids the player reports
MaxTracks == 2
\* the files and the RSS items in the database
MaxFiles == 2
MaxRss == 2
\* the longest title stored in streaming_icy_title
MaxTitleLen == 4100

(***************************************************************************)
(* Program constants.                                                      *)
(***************************************************************************)
\* sources[] = { &filescanner, &rssscanner, NULL } (without Spotify)
NSources == 2
\* library_update_wait = { 5, 0 }
library_update_wait == 5

\* static const short STREAMING_ICY_METAINT = 8192
STREAMING_ICY_METAINT == 8192

LISTENER_UPDATE == "UPDATE"
LISTENER_DATABASE == "DATABASE"
LISTENER_STORED_PLAYLIST == "STORED_PLAYLIST"

LIBRARY_OK == "LIBRARY_OK"
LIBRARY_ERROR == "LIBRARY_ERROR"
LIBRARY_PATH_INVALID == "LIBRARY_PATH_INVALID"

Sources == 1..NSources
Threads == 1..NThreads
\* the library thread (tid_library)
tid_library == 0

\* the scans a request thread can ask for, by the name of their command
ScanKinds == {"rescan", "metarescan", "fullrescan"}
\* the mutation commands
MutationOps == {"playlist_item_add", "playlist_remove", "queue_item_add", "queue_save"}
\* playlist_item_add, playlist_remove and queue_save share one loop
PlaylistOps == {"playlist_item_add", "playlist_remove", "queue_save"}
\* the masks library_update_trigger is called with
TriggerMasks == {{LISTENER_DATABASE}, {LISTENER_STORED_PLAYLIST}}
\* the events a source passes to library_update_trigger from its scan method
SourceTriggerMasks == {{LISTENER_DATABASE}}
\* what a source's mutation method may return
SourceResults == {LIBRARY_OK, LIBRARY_ERROR, LIBRARY_PATH_INVALID}

\* the input qualities, by their bits per sample, and the zero-initialised
\* streaming_quality
Qualities == {16, 24}
NoQuality == 0
\* the bytes an encoding adds to streaming_encoded_data
EncLens == {1, 4096, 8192, 12288}
\* what player_get_status() reports, and the status of the zero-initialised
\* streaming_player_status
PlayStatus == {"PLAY_PLAYING", "PLAY_PAUSED"}
NoStatus == "0"

\* a null pointer
NULL == 0

\* the longest title a metablock takes, and the size of the buffer
\* streaming_icy_meta_splice() gives streaming_icy_meta_create()
STREAMING_ICY_METALEN_MAX == 4080
\* a string is modelled by its length; streaming_icy_title = NULL
NoTitle == -1
\* the ids player_get_status() reports; 0: no track is loaded
TrackIds == 0..MaxTracks
\* the lengths of the title and of the artist of a queue item
ItemLens == {0, 1}
\* what db_queue_fetch_byfileid() returns: NULL, or a queue item
QueueItems ==
  {[found |-> FALSE, title |-> 0, artist |-> 0]}
  \cup [found : {TRUE}, title : ItemLens, artist : ItemLens]

\* evtimer states: not pending, or the seconds left (0: expired, callback due)
TimerOff == -1

VARIABLES
  \* ---- library.c ----
  scanning,                       \* static bool scanning
  deferred_update_notifications,  \* static unsigned int
  deferred_update_events,         \* static short, as a set of events
  updateev,                       \* the 5 s one-shot timer
  cmdq,                           \* cmdbase: the commands not yet executed
  lib_pc,                         \* where the library thread is
  scan,                           \* the scan the library thread is executing
  sources,                        \* sources[]: disabled flag, optional methods
  pc,                             \* where each request thread is
  calls,                          \* the public library functions called so far
  \* ---- observation (history) ----
  last,                           \* the step just taken and what it emitted
  quiet,                          \* seconds since update_trigger last armed the timer
  window,                         \* masks passed to update_trigger since the last flush
  burst,                          \* the pending timer stands for calls made outside any scan
  \* ---- httpd_streaming.c ----
  streaming_sessions,             \* the linked list, head first
  streaming_icy,                  \* static unsigned streaming_icy
  streaming_not_supported,
  streaming_encode_ctx,           \* NULL, or the quality the context was built for
  streaming_quality,
  streaming_encoded_data,         \* the bytes in the evbuffer
  streamingev,                    \* the event is added (armed)
  metaev,
  streaming_pipe,                 \* the PCM frames in the pipe, by their quality
  streaming_meta,                 \* the quality records in the pipe
  streaming_player_status,
  streaming_player_changed,
  writer,                         \* the quality of the frame the player thread is writing
  written,                        \* the call has written the frame's quality record
  engine,                         \* "running", or "deinit" after streaming_deinit()
  requests,                       \* the streaming requests made so far
  replies,                        \* what was last sent on each request's reply
  sends,                          \* the chunks fanned out to the fixed registry
  stream,                         \* what each session's client received
  streaming_icy_title,            \* static char *streaming_icy_title, by its length
  streaming_player_id,            \* streaming_player_status.id
  metablock,                      \* the ICY metablock last created
  \* ---- the database and the player, as fullrescan() meets them ----
  db

libvars == <<scanning, deferred_update_notifications, deferred_update_events,
             updateev, cmdq, lib_pc, scan, sources, pc, calls, last, quiet, window, burst>>

strvars == <<streaming_sessions, streaming_icy, streaming_not_supported,
             streaming_encode_ctx, streaming_quality, streaming_encoded_data,
             streamingev, metaev, streaming_pipe, streaming_meta,
             streaming_player_status, streaming_player_changed,
             writer, written, engine, requests, replies, sends, stream,
             streaming_icy_title, streaming_player_id, metablock>>

\* the ICY title, the track it belongs to and the metablock made of it
icyvars == <<streaming_icy_title, streaming_player_id, metablock>>

vars == <<libvars, strvars, db>>

\* a step: the operation, the masks it passed to listener_notify,
\* its outcome; a scan's end and a mutation also tell the sources they called
\* and a scan's end the notifications of the whole scan
Step(op, out, val) ==
  [op |-> op, out |-> out, val |-> val, notes |-> 0, invoked |-> <<>>]

\* no scan is executing; a scan also tells what it called after the loop over
\* the sources
NoScan == [kind |-> "none", i |-> 0, notes |-> 0, invoked |-> <<>>, purge |-> <<>>]

Min(a, b) == IF a < b THEN a ELSE b

(***************************************************************************)
(* library.c: helpers                                                      *)
(***************************************************************************)

\* handle_deferred_update_notifications(): the return value and the counter
\* it leaves
handle_deferred_update_notifications(counter) ==
  [ret |-> counter > 0,
   counter |-> IF counter > 0 THEN 0 ELSE counter]

\* update_trigger(): the command handler, on the deferred state and the timer
update_trigger(counter, events, timer, is_scanning, mask) ==
  [counter |-> counter + 1,
   events |-> events \cup mask,
   timer |-> IF ~is_scanning THEN library_update_wait ELSE timer]

\* update_trigger_cb(): what the timer callback notifies and the mask it leaves
update_trigger_cb_body(counter, events) ==
  LET h == handle_deferred_update_notifications(counter)
  IN  [counter |-> h.counter,
       out |-> IF h.ret THEN <<events>> ELSE <<>>,
       events |-> IF h.ret THEN {} ELSE events]

\* the notification a scan ends with, and the counter it leaves
\* a completion that notifies LISTENER_UPDATE whatever the counter is; C11
\* tells it from the code's
scan_completion_plain(counter) ==
  LET h == handle_deferred_update_notifications(counter)
  IN  [counter |-> h.counter, out |-> <<{LISTENER_UPDATE}>>]

\* a completion that notifies LISTENER_UPDATE and then the deferred events on
\* their own; C10 tells it from the code's
scan_completion_twice(counter) ==
  LET h == handle_deferred_update_notifications(counter)
  IN  [counter |-> h.counter,
       out |-> <<{LISTENER_UPDATE}, {LISTENER_UPDATE, LISTENER_DATABASE}>>]

scan_completion(counter) ==
  LET h == handle_deferred_update_notifications(counter)
  IN  [counter |-> h.counter,
       out |-> IF h.ret THEN <<{LISTENER_UPDATE, LISTENER_DATABASE}>>
                        ELSE <<{LISTENER_UPDATE}>>]

\* commands_exec_async() / commands_exec_sync(): the command is appended
commands_exec(queue, fn, arg, from) ==
  Append(queue, [fn |-> fn, arg |-> arg, from |-> from])

\* a loop that goes on to the next source after LIBRARY_OK; C21 tells it from
\* the code's
RECURSIVE playlist_loop_on(_, _, _, _)
playlist_loop_on(i, r, inv, res) ==
  IF i > NSources THEN [ret |-> r, invoked |-> inv]
  ELSE IF sources[i].disabled \/ ~sources[i].mutators
    THEN playlist_loop_on(i + 1, r, inv, res)
  ELSE playlist_loop_on(i + 1, res[i], Append(inv, i), res)

\* the loop of playlist_item_add(), playlist_remove() and queue_save() from
\* source i on: res[i] is what source i's method returns when it is called
RECURSIVE playlist_loop(_, _, _, _)
playlist_loop(i, r, inv, res) ==
  IF i > NSources THEN [ret |-> r, invoked |-> inv]
  ELSE IF sources[i].disabled \/ ~sources[i].mutators
    THEN playlist_loop(i + 1, r, inv, res)
  ELSE IF res[i] = LIBRARY_OK
    THEN [ret |-> LIBRARY_OK, invoked |-> Append(inv, i)]
  ELSE playlist_loop(i + 1, res[i], Append(inv, i), res)

\* a loop that asks the next source after any result that is not LIBRARY_OK;
\* C23 tells it from the code's
RECURSIVE queue_item_add_loop_any(_, _, _, _)
queue_item_add_loop_any(i, r, inv, res) ==
  IF i > NSources THEN [ret |-> r, invoked |-> inv]
  ELSE IF sources[i].disabled \/ ~sources[i].mutators
    THEN queue_item_add_loop_any(i + 1, r, inv, res)
  ELSE IF res[i] = LIBRARY_OK
    THEN [ret |-> LIBRARY_OK, invoked |-> Append(inv, i)]
  ELSE queue_item_add_loop_any(i + 1, res[i], Append(inv, i), res)

\* the loop of queue_item_add() from source i on
RECURSIVE queue_item_add_loop(_, _, _, _)
queue_item_add_loop(i, r, inv, res) ==
  IF i > NSources \/ r # LIBRARY_PATH_INVALID THEN [ret |-> r, invoked |-> inv]
  ELSE IF sources[i].disabled \/ ~sources[i].mutators
    THEN queue_item_add_loop(i + 1, r, inv, res)
  ELSE IF res[i] = LIBRARY_OK
    THEN [ret |-> LIBRARY_OK, invoked |-> Append(inv, i)]
  ELSE queue_item_add_loop(i + 1, res[i], Append(inv, i), res)

\* a mutation that notifies STORED_PLAYLIST whatever its result; C22 tells it
\* from the code's
mutation_notify_always(op, res) ==
  LET d == IF op = "queue_item_add"
             THEN queue_item_add_loop(1, LIBRARY_PATH_INVALID, <<>>, res)
             ELSE playlist_loop(1, LIBRARY_ERROR, <<>>, res)
  IN  [ret |-> d.ret,
       invoked |-> d.invoked,
       out |-> IF op # "queue_item_add"
                 THEN <<{LISTENER_STORED_PLAYLIST}>> ELSE <<>>]

\* a mutation command: its result, the sources it called, what it notifies
mutation(op, res) ==
  LET d == IF op = "queue_item_add"
             THEN queue_item_add_loop(1, LIBRARY_PATH_INVALID, <<>>, res)
             ELSE playlist_loop(1, LIBRARY_ERROR, <<>>, res)
  IN  [ret |-> d.ret,
       invoked |-> d.invoked,
       out |-> IF d.ret = LIBRARY_OK /\ op # "queue_item_add"
                 THEN <<{LISTENER_STORED_PLAYLIST}>> ELSE <<>>]


(***************************************************************************)
(* library.c: the request threads                                          *)
(***************************************************************************)

\* library_rescan(), library_metarescan(), library_fullrescan(): the test of
\* the scanning flag
\* the thread that makes the next call of a public function: the request
\* threads are interchangeable, the idle one with the smallest number calls
caller(t) ==
  /\ pc[t] = "idle"
  /\ \A u \in Threads : u < t => pc[u] # "idle"

\* a scan request that does not test the flag; C4 tells it from the code's
library_scan_check_unguarded(t) ==
  /\ UNCHANGED <<strvars, db>>
  /\ caller(t)
  /\ calls < MaxCalls
  /\ calls' = calls + 1
  /\ pc' = [pc EXCEPT ![t] = "scan_set"]
  /\ last' = Step("library_scan", <<>>, "accepted")
  /\ UNCHANGED <<scanning, deferred_update_notifications, deferred_update_events,
                 updateev, cmdq, lib_pc, scan, sources, quiet, window, burst>>

library_scan_check(t) ==
  /\ UNCHANGED <<strvars, db>>
  /\ caller(t)
  /\ calls < MaxCalls
  /\ calls' = calls + 1
  /\ IF scanning
       THEN /\ UNCHANGED <<pc>>
            /\ last' = Step("library_scan", <<>>, "ignored")
       ELSE /\ pc' = [pc EXCEPT ![t] = "scan_set"]
            /\ last' = Step("library_scan", <<>>, "accepted")
  /\ UNCHANGED <<scanning, deferred_update_notifications, deferred_update_events,
                 updateev, cmdq, lib_pc, scan, sources, quiet, window, burst>>

\* ... scanning = true
library_scan_set(t) ==
  /\ UNCHANGED <<strvars, db>>
  /\ pc[t] = "scan_set"
  /\ scanning' = TRUE
  /\ pc' = [pc EXCEPT ![t] = "scan_exec"]
  /\ last' = Step("scan_set", <<>>, "set")
  /\ burst' = FALSE
  /\ UNCHANGED <<calls, deferred_update_notifications, deferred_update_events,
                 updateev, cmdq, lib_pc, scan, sources, quiet, window>>

\* ... commands_exec_async(cmdbase, rescan | metarescan | fullrescan, NULL)
library_scan_exec(t, kind) ==
  /\ UNCHANGED <<strvars, db>>
  /\ pc[t] = "scan_exec"
  /\ cmdq' = commands_exec(cmdq, kind, {}, tid_library)
  /\ pc' = [pc EXCEPT ![t] = "idle"]
  /\ last' = Step("scan_exec", <<>>, kind)
  /\ UNCHANGED <<calls, scanning, deferred_update_notifications, deferred_update_events,
                 updateev, lib_pc, scan, sources, quiet, window, burst>>

\* library_playlist_item_add(), library_playlist_remove(), library_queue_save(),
\* library_queue_item_add(): the test of library_is_scanning()
library_mutation_check(t) ==
  /\ UNCHANGED <<strvars, db>>
  /\ caller(t)
  /\ calls < MaxCalls
  /\ calls' = calls + 1
  /\ IF scanning
       THEN /\ UNCHANGED <<pc>>
            /\ last' = Step("library_mutation", <<>>, "-1")
       ELSE /\ pc' = [pc EXCEPT ![t] = "mutation_exec"]
            /\ last' = Step("library_mutation", <<>>, "accepted")
  /\ UNCHANGED <<scanning, deferred_update_notifications, deferred_update_events,
                 updateev, cmdq, lib_pc, scan, sources, quiet, window, burst>>

\* ... commands_exec_sync(cmdbase, <op>, NULL, &param): the caller waits
library_mutation_exec(t, op) ==
  /\ UNCHANGED <<strvars, db>>
  /\ pc[t] = "mutation_exec"
  /\ cmdq' = commands_exec(cmdq, op, {}, t)
  /\ pc' = [pc EXCEPT ![t] = "mutation_wait"]
  /\ last' = Step("mutation_exec", <<>>, op)
  /\ UNCHANGED <<calls, scanning, deferred_update_notifications, deferred_update_events,
                 updateev, lib_pc, scan, sources, quiet, window, burst>>

\* history: what update_trigger() with this mask does to the observations
TriggerSeen(mask) ==
  /\ window' = window \cup mask
  /\ quiet' = IF scanning THEN quiet ELSE 0
  /\ burst' = /\ ~scanning
              /\ lib_pc = "dispatch"
              /\ updateev = TimerOff \/ (updateev > 0 /\ burst)

\* a library_update_trigger() that never takes itself for the library
\* thread; C24 tells it from the code's
on_library_thread_never(thread) == FALSE

\* pthread_equal(pthread_self(), tid_library)
on_library_thread(thread) == thread = tid_library

\* library_update_trigger(mask) called on the thread: on the library thread
\* update_trigger() is called directly, on another thread the command is
\* sent with commands_exec_async()
update_trigger_from(thread, mask) ==
  IF on_library_thread(thread)
  THEN LET u == update_trigger(deferred_update_notifications, deferred_update_events,
                               updateev, scanning, mask)
       IN  /\ deferred_update_notifications' = u.counter
           /\ deferred_update_events' = u.events
           /\ updateev' = u.timer
           /\ TriggerSeen(mask)
           /\ UNCHANGED cmdq
  ELSE /\ cmdq' = commands_exec(cmdq, "update_trigger", mask, tid_library)
       /\ UNCHANGED <<deferred_update_notifications, deferred_update_events,
                      updateev, quiet, window, burst>>

\* library_update_trigger() called by a request thread
library_update_trigger(t, mask) ==
  /\ UNCHANGED <<strvars, db>>
  /\ caller(t)
  /\ calls < MaxCalls
  /\ calls' = calls + 1
  /\ update_trigger_from(t, mask)
  /\ last' = Step("library_update_trigger", <<>>, "queued")
  /\ UNCHANGED <<scanning, lib_pc, scan, sources, pc>>

(***************************************************************************)
(* library.c: the library thread                                           *)
(***************************************************************************)

\* initscan(), up to the loop over the sources
initscan_start ==
  /\ UNCHANGED <<strvars, db>>
  /\ lib_pc = "initscan"
  /\ scanning' = TRUE
  /\ scan' = [kind |-> "initscan", i |-> 1, notes |-> 1, invoked |-> <<>>,
            purge |-> <<>>]
  /\ lib_pc' = "scan_sources"
  /\ last' = Step("scan_start", <<{LISTENER_UPDATE}>>, "initscan")
  /\ burst' = FALSE
  /\ UNCHANGED <<calls, deferred_update_notifications, deferred_update_events,
                 updateev, cmdq, sources, pc, quiet, window>>

\* rescan(), metarescan(), fullrescan() taken from the command queue, up to
\* the loop over the sources
scan_start ==
  /\ UNCHANGED <<strvars, db>>
  /\ lib_pc = "dispatch"
  /\ cmdq # <<>>
  /\ Head(cmdq).fn \in ScanKinds
  /\ cmdq' = Tail(cmdq)
  /\ scan' = [kind |-> Head(cmdq).fn, i |-> 1, notes |-> 1, invoked |-> <<>>,
            purge |-> <<>>]
  /\ lib_pc' = "scan_sources"
  /\ last' = Step("scan_start", <<{LISTENER_UPDATE}>>, Head(cmdq).fn)
  /\ burst' = FALSE
  /\ UNCHANGED <<calls, scanning, deferred_update_notifications, deferred_update_events,
                 updateev, sources, pc, quiet, window>>

\* a loop that calls the scan method of a disabled source too; C27 tells it
\* from the code's
scan_source_all(mask) ==
  /\ UNCHANGED <<strvars, db>>
  /\ lib_pc = "scan_sources"
  /\ LET i == scan.i
     IN  /\ scan' = [scan EXCEPT !.i = i + 1, !.invoked = Append(@, i)]
         /\ lib_pc' = IF i = NSources THEN "scan_end" ELSE "scan_sources"
         /\ IF mask # {}
              THEN update_trigger_from(tid_library, mask)
              ELSE UNCHANGED <<deferred_update_notifications, deferred_update_events,
                               updateev, cmdq, quiet, window, burst>>
         /\ last' = Step("scan_source", <<>>, "called")
  /\ UNCHANGED <<calls, scanning, sources, pc>>

\* one turn of the loop over the sources: sources[i]'s scan method, which may
\* call library_update_trigger(mask) on the library thread (mask {}: it does not)
scan_source(mask) ==
  /\ UNCHANGED <<strvars, db>>
  /\ lib_pc = "scan_sources"
  /\ LET i == scan.i
         runs == ~sources[i].disabled
     IN  /\ mask # {} => runs
         /\ scan' = [scan EXCEPT !.i = i + 1,
                                 !.invoked = IF runs THEN Append(@, i) ELSE @]
         /\ lib_pc' = IF i = NSources THEN "scan_end" ELSE "scan_sources"
         /\ IF mask # {}
              THEN update_trigger_from(tid_library, mask)
              ELSE UNCHANGED <<deferred_update_notifications, deferred_update_events,
                               updateev, cmdq, quiet, window, burst>>
         /\ last' = Step("scan_source", <<>>,
                         IF runs THEN "called" ELSE "skipped")
  /\ UNCHANGED <<calls, scanning, sources, pc>>

\* what a scan calls between the loop over the sources and scanning = false:
\* rescan() and metarescan() purge and run the hook, fullrescan() does
\* neither, initscan() does both unless filescan_disable is set
scan_purge(kind, filescan_disable) ==
  IF kind = "fullrescan" THEN <<>>
  ELSE IF kind = "initscan" /\ filescan_disable THEN <<>>
  ELSE <<"purge_cruft", "db_hook_post_scan">>

\* the end of the loop over the sources: purge, scanning = false;
\* filescan_disable is what the configuration says
scan_clear(filescan_disable) ==
  /\ UNCHANGED <<strvars, db>>
  /\ lib_pc = "scan_end"
  /\ scan' = [scan EXCEPT !.purge = scan_purge(scan.kind, filescan_disable)]
  /\ scanning' = FALSE
  /\ lib_pc' = "scan_notify"
  /\ last' = Step("scan_clear", <<>>, scan.kind)
  /\ UNCHANGED <<calls, deferred_update_notifications, deferred_update_events,
                 updateev, cmdq, sources, pc, quiet, window, burst>>

\* the end of a scan: the completion notification
scan_end ==
  /\ UNCHANGED <<strvars, db>>
  /\ lib_pc = "scan_notify"
  /\ LET c == scan_completion(deferred_update_notifications)
     IN  /\ deferred_update_notifications' = c.counter
         /\ last' = [Step("scan_end", c.out, scan.kind)
                       EXCEPT !.notes = scan.notes + Len(c.out),
                              !.invoked = scan.invoked]
  /\ scan' = NoScan
  /\ lib_pc' = "dispatch"
  /\ window' = {}
  /\ burst' = FALSE
  /\ UNCHANGED <<calls, scanning, deferred_update_events, updateev, cmdq, sources,
                 pc, quiet>>

\* the update_trigger command taken from the command queue
command_update_trigger ==
  /\ UNCHANGED <<strvars, db>>
  /\ lib_pc = "dispatch"
  /\ cmdq # <<>>
  /\ Head(cmdq).fn = "update_trigger"
  /\ LET u == update_trigger(deferred_update_notifications, deferred_update_events,
                             updateev, scanning, Head(cmdq).arg)
     IN  /\ deferred_update_notifications' = u.counter
         /\ deferred_update_events' = u.events
         /\ updateev' = u.timer
  /\ TriggerSeen(Head(cmdq).arg)
  /\ cmdq' = Tail(cmdq)
  /\ last' = Step("update_trigger", <<>>,
                  IF scanning THEN "scanning" ELSE "armed")
  /\ UNCHANGED <<calls, scanning, lib_pc, scan, sources, pc>>

\* a mutation command taken from the command queue; res[i] is what source
\* i's method returns when it is called. The waiting caller gets the result.
command_mutation(res) ==
  /\ UNCHANGED <<strvars, db>>
  /\ lib_pc = "dispatch"
  /\ cmdq # <<>>
  /\ Head(cmdq).fn \in MutationOps
  /\ LET m == mutation(Head(cmdq).fn, res)
     IN  last' = [Step(Head(cmdq).fn, m.out, m.ret)
                    EXCEPT !.invoked = m.invoked]
  /\ pc' = [pc EXCEPT ![Head(cmdq).from] = "idle"]
  /\ cmdq' = Tail(cmdq)
  /\ UNCHANGED <<calls, scanning, deferred_update_notifications, deferred_update_events,
                 updateev, lib_pc, scan, sources, quiet, window, burst>>

\* update_trigger_cb(): the timer has expired
update_trigger_cb ==
  /\ UNCHANGED <<strvars, db>>
  /\ lib_pc = "dispatch"
  /\ updateev = 0
  /\ LET b == update_trigger_cb_body(deferred_update_notifications,
                                     deferred_update_events)
     IN  /\ deferred_update_notifications' = b.counter
         /\ deferred_update_events' = b.events
         /\ last' = Step("update_trigger_cb", b.out,
                         IF b.out = <<>> THEN "silent" ELSE "notified")
  /\ updateev' = TimerOff
  /\ window' = {}
  /\ burst' = FALSE
  /\ UNCHANGED <<calls, scanning, cmdq, lib_pc, scan, sources, pc, quiet>>

\* library_update_wait seconds pass
Tick ==
  /\ UNCHANGED <<strvars, db>>
  /\ updateev > 0 \/ quiet < library_update_wait
  /\ updateev' = IF updateev > 0 THEN updateev - library_update_wait ELSE updateev
  /\ quiet' = Min(quiet + library_update_wait, library_update_wait)
  /\ UNCHANGED <<calls, scanning, deferred_update_notifications, deferred_update_events,
                 cmdq, lib_pc, scan, sources, pc, last, window, burst>>

\* library_init(): a source is disabled when its init() or register_events()
\* fails; the optional methods are there or not
SourceStates ==
  {[disabled |-> FALSE, mutators |-> TRUE],
   [disabled |-> FALSE, mutators |-> FALSE],
   [disabled |-> TRUE, mutators |-> FALSE]}

InitLib ==
  /\ scanning = FALSE
  /\ deferred_update_notifications = 0
  /\ deferred_update_events = {}
  /\ updateev = TimerOff
  /\ cmdq = <<>>
  /\ lib_pc = "initscan"
  /\ scan = NoScan
  /\ sources \in [Sources -> SourceStates]
  /\ pc = [t \in Threads |-> "idle"]
  /\ calls = 0
  /\ last = Step("library_init", <<>>, "none")
  /\ quiet = library_update_wait
  /\ window = {}
  /\ burst = FALSE

NextLib ==
  \/ \E t \in Threads : library_scan_check(t)
  \/ \E t \in Threads : library_scan_set(t)
  \/ \E t \in Threads, kind \in ScanKinds : library_scan_exec(t, kind)
  \/ \E t \in Threads : library_mutation_check(t)
  \/ \E t \in Threads, op \in MutationOps : library_mutation_exec(t, op)
  \/ \E t \in Threads, mask \in TriggerMasks : library_update_trigger(t, mask)
  \/ initscan_start
  \/ scan_start
  \/ \E mask \in SourceTriggerMasks \cup {{}} : scan_source(mask)
  \/ \E filescan_disable \in BOOLEAN : scan_clear(filescan_disable)
  \/ scan_end
  \/ command_update_trigger
  \/ \E res \in [Sources -> SourceResults] : command_mutation(res)
  \/ update_trigger_cb
  \/ Tick

(***************************************************************************)
(* httpd_streaming.c: the MP3 streaming engine.  The httpd thread runs the *)
(* request handler and the event callbacks, the player thread runs          *)
(* streaming_write() and player_change_cb().                                *)
(***************************************************************************)

\* what a request's reply has last seen: evhttp_send_error() with 404 or 503,
\* evhttp_send_reply_start() with 200, evhttp_send_reply_end()
HTTP_OK == "200"
HTTP_NOTFOUND == "404"
HTTP_SERVUNAVAIL == "503"
REPLY_END == "end"
\* ... and the close callback of a request whose reply was ended has run
REPLY_CLOSED == "closed"

\* a struct streaming_session as streaming_request() fills it in
streaming_session(req, wanticy) ==
  [req |-> req, icy |-> wanticy, bytes_sent |-> 0]

\* the body of the fan-out loop for one session and len encoded bytes: the
\* session after it, and the offset in the chunk at which the metablock is
\* spliced in (-1: the chunk is sent as it is)
session_send(session, len) ==
  LET count == session.bytes_sent + len
      overflow == count % STREAMING_ICY_METAINT
  IN  IF session.icy /\ count > STREAMING_ICY_METAINT
      THEN [session |-> [session EXCEPT !.bytes_sent = overflow],
            splice |-> len - overflow]
      ELSE [session |-> [session EXCEPT !.bytes_sent = @ + len],
            splice |-> -1]

\* the fan-out loop over the list
fanout(sessions, len) ==
  [i \in 1..Len(sessions) |-> session_send(sessions[i], len).session]

\* a fan-out loop that does not empty evbuf when it sends it; C18 tells it
\* from the code's
RECURSIVE fanout_deliver_keep(_, _, _, _, _)
fanout_deliver_keep(sessions, i, len, shared, evbuf) ==
  IF i > Len(sessions) THEN <<>>
  ELSE LET islast == i = Len(sessions)
           spliced == session_send(sessions[i], len).splice >= 0
           viaevbuf == spliced \/ ~islast
           left == IF ~islast THEN shared ELSE IF spliced THEN shared - len ELSE 0
       IN  <<[audio |-> IF viaevbuf THEN evbuf + len ELSE shared, left |-> left]>>
           \o fanout_deliver_keep(sessions, i + 1, len, left,
                                  IF viaevbuf THEN evbuf + len ELSE evbuf)

\* the fan-out loop from session i on, for the len bytes that are in the
\* shared buffer when it starts: the audio bytes evhttp_send_reply_chunk() is
\* given for each session and the bytes left in the shared buffer after it.
\* A session that gets a metablock, and every session but the last, is sent
\* evbuf with a copy of len bytes of the shared buffer; the last session
\* drains the shared buffer by len or is sent the shared buffer itself.
\* evhttp_send_reply_chunk() empties the buffer it is given.
RECURSIVE fanout_deliver(_, _, _, _, _)
fanout_deliver(sessions, i, len, shared, evbuf) ==
  IF i > Len(sessions) THEN <<>>
  ELSE LET islast == i = Len(sessions)
           spliced == session_send(sessions[i], len).splice >= 0
           viaevbuf == spliced \/ ~islast
           left == IF ~islast THEN shared ELSE IF spliced THEN shared - len ELSE 0
       IN  <<[audio |-> IF viaevbuf THEN evbuf + len ELSE shared, left |-> left]>>
           \o fanout_deliver(sessions, i + 1, len, left,
                             IF viaevbuf THEN 0 ELSE evbuf)

\* what a client has received: the audio bytes, the audio offsets at which
\* a metablock came, and what the shared buffer held after the last chunk was
\* sent to it
NoStream == [audio |-> 0, metas |-> <<>>, left |-> 0]

\* the client's stream after the chunk evhttp_send_reply_chunk() hands over
received(client, session, len, chunk) ==
  LET offset == session_send(session, len).splice
  IN  [audio |-> client.audio + chunk.audio,
       metas |-> IF offset < 0 THEN client.metas
                 ELSE Append(client.metas, client.audio + offset),
       left |-> chunk.left]

\* what transcode_encode() returns: an error, or the bytes it added to
\* streaming_encoded_data
EncodeResults == {-1, 0, STREAMING_ICY_METAINT}

\* an encode_buffer() that calls the encoder whatever the flag and the
\* quality; C35 tells it from the code's
encode_buffer_unguarded(not_supported, quality, ret) == ret

\* encode_buffer(): -1 without calling the encoder when streaming is not
\* supported or the quality is zero, else what transcode_encode() returns
encode_buffer(not_supported, quality, ret) ==
  IF not_supported \/ quality = NoQuality THEN -1 ELSE ret

\* the session list without the session of the request
RECURSIVE session_remove(_, _)
session_remove(sessions, req) ==
  IF sessions = <<>> THEN <<>>
  ELSE IF Head(sessions).req = req THEN Tail(sessions)
  ELSE <<Head(sessions)>> \o session_remove(Tail(sessions), req)

\* the ICY counter after the session left; the counter is never below the
\* number of ICY sessions in the list, so the decrement does not wrap
icy_release(counter, session) ==
  IF session.icy THEN counter - 1 ELSE counter

\* a drain that ends the reply of every request made so far; C25 tells it
\* from the code's
reply_end_all(sessions, sent) == [r \in 1..Len(sent) |-> REPLY_END]

\* the replies after evhttp_send_reply_end() on the request of every session
\* of the list
reply_end(sessions, sent) ==
  [r \in 1..Len(sent) |->
     IF \E i \in 1..Len(sessions) : sessions[i].req = r THEN REPLY_END ELSE sent[r]]

\* a force-close that leaves the events added; C3 tells it from the code's
streaming_end_armed(sessions, sent) ==
  [sessions |-> SubSeq(sessions, Len(sessions) + 1, Len(sessions)),
   replies |-> reply_end(sessions, sent),
   streamingev |-> TRUE,
   metaev |-> TRUE]

\* streaming_end(): every reply is ended and every session freed, both
\* events are deleted
streaming_end(sessions, sent) ==
  [sessions |-> SubSeq(sessions, Len(sessions) + 1, Len(sessions)),
   replies |-> reply_end(sessions, sent),
   streamingev |-> FALSE,
   metaev |-> FALSE]

\* a request_reply() that does not look at streaming_not_supported; C13 tells
\* it from the code's
request_reply_any(not_supported, oom) ==
  IF oom THEN HTTP_SERVUNAVAIL ELSE HTTP_OK

\* what streaming_request() answers: 404 when streaming is not supported, 503
\* when the session cannot be allocated, else the reply is started with 200
request_reply(not_supported, oom) ==
  IF not_supported THEN HTTP_NOTFOUND
  ELSE IF oom THEN HTTP_SERVUNAVAIL
  ELSE HTTP_OK

streaming_request(wanticy, oom) ==
  /\ UNCHANGED <<libvars, db, stream, icyvars>>
  /\ engine = "running"
  /\ requests < MaxRequests
  /\ requests' = requests + 1
  /\ replies' = Append(replies, request_reply(streaming_not_supported, oom))
  /\ IF request_reply(streaming_not_supported, oom) = HTTP_NOTFOUND
     THEN /\ UNCHANGED <<streaming_sessions, streaming_icy, streamingev, metaev>>
     ELSE /\ streaming_icy' = IF wanticy THEN streaming_icy + 1 ELSE streaming_icy
          /\ IF request_reply(streaming_not_supported, oom) = HTTP_SERVUNAVAIL
             THEN /\ UNCHANGED <<streaming_sessions, streamingev, metaev>>
             ELSE /\ streamingev' = (streaming_sessions = <<>> \/ streamingev)
                  /\ metaev' = (streaming_sessions = <<>> \/ metaev)
                  /\ streaming_sessions' =
                       <<streaming_session(requests + 1, wanticy)>> \o streaming_sessions
  /\ UNCHANGED <<streaming_not_supported, streaming_encode_ctx, streaming_quality,
                 streaming_encoded_data, streaming_pipe, streaming_meta,
                 streaming_player_status, streaming_player_changed,
                 writer, written, engine, sends>>

\* the connection of a session in the list closes
streaming_close_cb(i) ==
  /\ UNCHANGED <<libvars, db, stream, icyvars>>
  /\ engine = "running"
  /\ i \in 1..Len(streaming_sessions)
  /\ LET session == streaming_sessions[i]
         rest == session_remove(streaming_sessions, session.req)
     IN  /\ streaming_sessions' = rest
         /\ streaming_icy' = icy_release(streaming_icy, session)
         /\ streamingev' = (rest # <<>> /\ streamingev)
         /\ metaev' = (rest # <<>> /\ metaev)
  /\ UNCHANGED <<streaming_not_supported, streaming_encode_ctx, streaming_quality,
                 streaming_encoded_data, streaming_pipe, streaming_meta,
                 streaming_player_status, streaming_player_changed,
                 writer, written, engine, requests, replies, sends>>

\* what streaming_meta_cb() can meet: the record is read and the encoder built,
\* read() returns less than a record, the decoder or the MP3 encoder cannot be
\* set up
MetaResults == {"ok", "short_read", "no_decoder", "no_encoder"}

\* a quality record is readable; setup is what read() and the transcoder make
\* of it: a read() that fails leaves the record in the pipe
streaming_meta_cb(setup) ==
  /\ UNCHANGED <<libvars, db, stream, icyvars>>
  /\ engine = "running"
  /\ metaev
  /\ streaming_meta # <<>>
  /\ streaming_meta' = IF setup = "short_read" THEN streaming_meta
                       ELSE Tail(streaming_meta)
  /\ LET quality == Head(streaming_meta)
         decode_ctx == IF quality \in {16, 24, 32} /\ setup \notin {"short_read", "no_decoder"}
                       THEN quality ELSE NULL
         e == streaming_end(streaming_sessions, replies)
     IN  IF decode_ctx = NULL
         THEN /\ streaming_encode_ctx' = NULL
              /\ streaming_not_supported' = TRUE
              /\ streaming_sessions' = e.sessions
              /\ replies' = e.replies
              /\ streamingev' = e.streamingev
              /\ metaev' = e.metaev
              /\ UNCHANGED streaming_quality
         ELSE IF setup = "no_encoder"
         THEN /\ streaming_encode_ctx' = NULL
              /\ streaming_not_supported' = TRUE
              /\ UNCHANGED <<streaming_sessions, replies, streamingev, metaev,
                             streaming_quality>>
         ELSE /\ streaming_encode_ctx' = quality
              /\ streaming_quality' = quality
              /\ streaming_not_supported' = FALSE
              /\ UNCHANGED <<streaming_sessions, replies, streamingev, metaev>>
  /\ UNCHANGED <<streaming_icy, streaming_encoded_data, streaming_pipe,
                 streaming_player_status, streaming_player_changed,
                 writer, written, engine, requests, sends>>

\* bytes_sent of a session without ICY grows with every chunk: the sessions
\* are sent to until one has got MaxSends full chunks
CanSend ==
  \A i \in 1..Len(streaming_sessions) :
    streaming_sessions[i].bytes_sent < MaxSends * STREAMING_ICY_METAINT

\* the tail of streaming_send_cb(): the buffer holds len bytes
send_data(len) ==
  IF len = 0
  THEN /\ UNCHANGED <<streaming_sessions, streaming_encoded_data>>
  ELSE /\ streaming_sessions' = fanout(streaming_sessions, len)
       /\ streaming_encoded_data' =
            IF streaming_sessions = <<>> THEN len
            ELSE fanout_deliver(streaming_sessions, 1, len, len, 0)[Len(streaming_sessions)].left

\* streaming_player_status_update(): the status is what player_get_status()
\* reports
streaming_player_status_update(status) == status

\* EV_READ: the frames in the pipe are read and encoded one by one; the k-th is
\* the last one read, ret is what the encoder returns for it, status what the
\* player reports
streaming_send_cb_read(k, ret, status) ==
  /\ UNCHANGED <<libvars, db, stream, icyvars>>
  /\ engine = "running"
  /\ streamingev
  /\ k \in 1..Len(streaming_pipe)
  /\ streaming_player_changed' = FALSE
  /\ IF streaming_player_changed THEN status \in PlayStatus
     ELSE status = streaming_player_status
  /\ streaming_player_status' =
       IF streaming_player_changed THEN streaming_player_status_update(status)
       ELSE streaming_player_status
  /\ LET r == encode_buffer(streaming_not_supported, streaming_quality, ret)
     IN  IF r < 0
         THEN /\ streaming_pipe' = SubSeq(streaming_pipe, k + 1, Len(streaming_pipe))
              /\ UNCHANGED <<streaming_sessions, streaming_encoded_data>>
         ELSE /\ k = Len(streaming_pipe)
              /\ streaming_pipe' = <<>>
              /\ CanSend
              /\ send_data(streaming_encoded_data + r)
  /\ UNCHANGED <<streaming_icy, streaming_not_supported, streaming_encode_ctx,
                 streaming_quality, streamingev, metaev, streaming_meta,
                 writer, written, engine, requests, replies, sends>>

\* the one second timeout: nothing was readable
streaming_send_cb_timeout(ret, status) ==
  /\ UNCHANGED <<libvars, db, stream, icyvars>>
  /\ engine = "running"
  /\ streamingev
  /\ streaming_pipe = <<>>
  /\ streaming_player_changed' = FALSE
  /\ IF streaming_player_changed THEN status \in PlayStatus
     ELSE status = streaming_player_status
  /\ LET r == encode_buffer(streaming_not_supported, streaming_quality, ret)
     IN  /\ streaming_player_status' =
              IF streaming_player_changed THEN streaming_player_status_update(status)
              ELSE streaming_player_status
         /\ IF streaming_player_status' # "PLAY_PAUSED"
            THEN /\ ret = 0
                 /\ UNCHANGED <<streaming_sessions, streaming_encoded_data>>
            ELSE IF r < 0
            THEN /\ UNCHANGED <<streaming_sessions, streaming_encoded_data>>
            ELSE /\ CanSend
                 /\ send_data(streaming_encoded_data + r)
  /\ UNCHANGED <<streaming_icy, streaming_not_supported, streaming_encode_ctx,
                 streaming_quality, streamingev, metaev, streaming_pipe,
                 streaming_meta, writer, written, engine, requests, replies, sends>>

\* player thread: the listener callback
player_change_cb ==
  /\ UNCHANGED <<libvars, db, stream, icyvars>>
  /\ engine = "running"
  /\ streaming_player_changed' = TRUE
  /\ UNCHANGED <<streaming_sessions, streaming_icy, streaming_not_supported,
                 streaming_encode_ctx, streaming_quality, streaming_encoded_data,
                 streamingev, metaev, streaming_pipe, streaming_meta,
                 streaming_player_status, writer, written, engine, requests, replies, sends>>

\* a write() that always finds room in the pipe; C15 tells it from the code's
pipe_write_room(pipe, data, open) ==
  [ret |-> 1, pipe |-> Append(pipe, data)]

\* write() on the write end of a pipe opened O_NONBLOCK: it returns at once,
\* with EBADF when streaming_deinit() has closed the pipe and with EAGAIN when
\* the pipe is full, and then the pipe is as it was
pipe_write(pipe, data, open) ==
  IF ~open \/ Len(pipe) >= MaxPipe
  THEN [ret |-> -1, pipe |-> pipe]
  ELSE [ret |-> 1, pipe |-> Append(pipe, data)]

\* player thread: streaming_write() up to the write of the PCM data
streaming_write(quality) ==
  /\ UNCHANGED <<libvars, db, stream, icyvars>>
  /\ writer = NoQuality
  /\ IF streaming_sessions = <<>>
     THEN /\ UNCHANGED <<streaming_meta, writer, written>>
     ELSE IF quality = streaming_quality
     THEN /\ writer' = quality
          /\ UNCHANGED <<streaming_meta, written>>
     ELSE LET w == pipe_write(streaming_meta, quality, engine = "running")
          IN  IF w.ret < 0
              THEN /\ UNCHANGED <<streaming_meta, writer, written>>
              ELSE /\ streaming_meta' = w.pipe
                   /\ writer' = quality
                   /\ written' = TRUE
  /\ UNCHANGED <<streaming_sessions, streaming_icy, streaming_not_supported,
                 streaming_encode_ctx, streaming_quality, streaming_encoded_data,
                 streamingev, metaev, streaming_pipe, streaming_player_status,
                 streaming_player_changed, engine, requests, replies, sends>>

\* player thread: the write of the PCM data
streaming_write_pcm ==
  /\ UNCHANGED <<libvars, db, stream, icyvars>>
  /\ writer # NoQuality
  /\ writer' = NoQuality
  /\ written' = FALSE
  /\ streaming_pipe' = pipe_write(streaming_pipe, writer, engine = "running").pipe
  /\ UNCHANGED <<streaming_sessions, streaming_icy, streaming_not_supported,
                 streaming_encode_ctx, streaming_quality, streaming_encoded_data,
                 streamingev, metaev, streaming_meta, streaming_player_status,
                 streaming_player_changed, engine, requests, replies, sends>>

streaming_deinit ==
  /\ UNCHANGED <<libvars, db, stream, icyvars>>
  /\ engine = "running"
  /\ engine' = "deinit"
  /\ LET e == streaming_end(streaming_sessions, replies)
     IN  /\ streaming_sessions' = e.sessions
         /\ replies' = e.replies
         /\ streamingev' = e.streamingev
         /\ metaev' = e.metaev
  /\ streaming_encode_ctx' = NULL
  /\ streaming_encoded_data' = 0
  /\ streaming_pipe' = <<>>
  /\ streaming_meta' = <<>>
  /\ UNCHANGED <<streaming_icy, streaming_not_supported, streaming_quality,
                 streaming_player_status, streaming_player_changed,
                 writer, written, requests, sends>>

\* no metablock was created yet
NoMetablock == [title |-> NoTitle, no16s |-> 0, buflen |-> 0, text |-> 0, overrun |-> 0]

\* streaming_init(): no title; the zero-initialised streaming_player_status
InitTitle ==
  /\ streaming_icy_title = NoTitle
  /\ streaming_player_id = 0
  /\ metablock = NoMetablock

\* the state streaming_init() leaves
InitStream ==
  /\ streaming_sessions = <<>>
  /\ streaming_icy = 0
  /\ streaming_not_supported = FALSE
  /\ streaming_encode_ctx = NULL
  /\ streaming_quality = NoQuality
  /\ streaming_encoded_data = 0
  /\ streamingev = FALSE
  /\ metaev = FALSE
  /\ streaming_pipe = <<>>
  /\ streaming_meta = <<>>
  /\ streaming_player_status = NoStatus
  /\ streaming_player_changed = FALSE
  /\ writer = NoQuality
  /\ written = FALSE
  /\ engine = "running"
  /\ requests = 0
  /\ replies = <<>>
  /\ sends = 0
  /\ stream = <<>>
  /\ InitTitle

NextStream ==
  \/ \E wanticy \in BOOLEAN, oom \in BOOLEAN : streaming_request(wanticy, oom)
  \/ \E i \in 1..MaxRequests : streaming_close_cb(i)
  \/ \E setup \in MetaResults : streaming_meta_cb(setup)
  \/ \E k \in 1..MaxPipe, ret \in EncodeResults, status \in PlayStatus \cup {NoStatus} :
       streaming_send_cb_read(k, ret, status)
  \/ \E ret \in EncodeResults, status \in PlayStatus \cup {NoStatus} :
       streaming_send_cb_timeout(ret, status)
  \/ player_change_cb
  \/ \E quality \in Qualities : streaming_write(quality)
  \/ streaming_write_pcm
  \/ streaming_deinit

\* a late close callback that frees its session once more; C26 tells it from
\* the code's
streaming_close_cb_late_free(r, j) ==
  /\ UNCHANGED <<libvars, db, stream, icyvars>>
  /\ r \in 1..requests
  /\ replies[r] = REPLY_END
  /\ j = 0
  /\ replies' = [replies EXCEPT ![r] = "freed"]
  /\ UNCHANGED <<streaming_sessions, streaming_icy, streamingev, metaev,
                 streaming_not_supported, streaming_encode_ctx, streaming_quality,
                 streaming_encoded_data, streaming_pipe, streaming_meta,
                 streaming_player_status, streaming_player_changed,
                 writer, written, engine, requests, sends>>

\* streaming_close_cb() for request r, whose session streaming_end() has
\* freed: the connection closes after the drain and the callback is still
\* set. With an empty list the callback returns at once. With sessions in
\* the list it reads this->req of the freed session: the request it compares
\* with is any, that of session j of the list or of none (j = 0), and the
\* session found is unlinked as in streaming_close_cb()
streaming_close_cb_late(r, j) ==
  /\ UNCHANGED <<libvars, db, stream, icyvars>>
  /\ r \in 1..requests
  /\ replies[r] = REPLY_END
  /\ replies' = [replies EXCEPT ![r] = REPLY_CLOSED]
  /\ IF streaming_sessions = <<>>
     THEN /\ j = 0
          /\ UNCHANGED <<streaming_sessions, streaming_icy, streamingev, metaev>>
     ELSE /\ j \in 0..Len(streaming_sessions)
          /\ IF j = 0
             THEN UNCHANGED <<streaming_sessions, streaming_icy, streamingev, metaev>>
             ELSE LET session == streaming_sessions[j]
                      rest == session_remove(streaming_sessions, session.req)
                  IN  /\ streaming_sessions' = rest
                      /\ streaming_icy' = icy_release(streaming_icy, session)
                      /\ streamingev' = (rest # <<>> /\ streamingev)
                      /\ metaev' = (rest # <<>> /\ metaev)
  /\ UNCHANGED <<streaming_not_supported, streaming_encode_ctx, streaming_quality,
                 streaming_encoded_data, streaming_pipe, streaming_meta,
                 streaming_player_status, streaming_player_changed,
                 writer, written, engine, requests, sends>>

\* the life of the sessions, with the close callbacks that come after a
\* drain: the requests, the disconnects, the quality changes and the teardown;
\* the fan-out, which changes bytes_sent and the buffer only, is left out
NextClose ==
  \/ \E wanticy \in BOOLEAN, oom \in BOOLEAN : streaming_request(wanticy, oom)
  \/ \E i \in 1..MaxRequests : streaming_close_cb(i)
  \/ \E setup \in MetaResults : streaming_meta_cb(setup)
  \/ \E quality \in Qualities : streaming_write(quality)
  \/ streaming_write_pcm
  \/ streaming_deinit
  \/ \E r \in 1..MaxRequests, j \in 0..MaxRequests : streaming_close_cb_late(r, j)

(***************************************************************************)
(* The two subsystems share no state; each is checked with the other at    *)
(* rest.                                                                    *)
(***************************************************************************)

\* an empty database, nothing playing
InitDb ==
  db = [playing |-> FALSE, queue |-> {}, files |-> {}, rss |-> {}, rss_tmp |-> {},
        done |-> <<>>, files0 |-> {}, rss0 |-> {}]

\* the library before its thread runs, with every source enabled
LibAtRest ==
  /\ InitLib
  /\ InitDb
  /\ sources = [s \in Sources |-> [disabled |-> FALSE, mutators |-> TRUE]]

Init == InitLib /\ InitStream /\ InitDb

SpecLib == Init /\ [][NextLib]_vars

InitStreaming == InitStream /\ LibAtRest

SpecStream == InitStreaming /\ [][NextStream]_vars

SpecClose == InitStreaming /\ [][NextClose]_vars

(***************************************************************************)
(* The fan-out of streaming_send_cb() on a registry that stays as it is:   *)
(* the sessions were accepted and the encoder was set up for 16 bit input, *)
(* every wake-up finds a chunk of encoded data in the buffer.              *)
(***************************************************************************)

\* the registry after n requests; the odd ones came with Icy-MetaData: 1 when
\* icy, the even ones otherwise
RECURSIVE Registry(_, _)
Registry(n, icy) ==
  IF n = 0 THEN <<>>
  ELSE <<streaming_session(n, icy = (n % 2 = 1))>> \o Registry(n - 1, icy)

InitRegistry(n, icy) ==
  /\ streaming_sessions = Registry(n, icy)
  /\ streaming_icy = Cardinality({i \in 1..n : streaming_sessions[i].icy})
  /\ requests = n
  /\ replies = [i \in 1..n |-> HTTP_OK]
  /\ stream = [i \in 1..n |-> NoStream]
  /\ streaming_not_supported = FALSE
  /\ streaming_encode_ctx = 16
  /\ streaming_quality = 16
  /\ streaming_encoded_data = 0
  /\ streamingev = TRUE
  /\ metaev = TRUE
  /\ streaming_pipe = <<>>
  /\ streaming_meta = <<>>
  /\ streaming_player_status = NoStatus
  /\ streaming_player_changed = FALSE
  /\ writer = NoQuality
  /\ written = FALSE
  /\ engine = "running"
  /\ sends = 0

InitIcy ==
  /\ \E n \in 1..MaxSessions, icy \in BOOLEAN : InitRegistry(n, icy)
  /\ InitTitle

\* a wake-up of streaming_send_cb() that leaves len encoded bytes to send
send_chunk(len) ==
  /\ UNCHANGED <<libvars, db, icyvars>>
  /\ sends < MaxChunks
  /\ sends' = sends + 1
  /\ send_data(streaming_encoded_data + len)
  /\ LET L == streaming_encoded_data + len
         chunks == fanout_deliver(streaming_sessions, 1, L, L, 0)
     IN  stream' = [i \in 1..Len(stream) |->
                      received(stream[i], streaming_sessions[i], L, chunks[i])]
  /\ UNCHANGED <<streaming_icy, streaming_not_supported, streaming_encode_ctx,
                 streaming_quality, streamingev, metaev, streaming_pipe,
                 streaming_meta, streaming_player_status,
                 streaming_player_changed, writer, written, engine, requests, replies>>

NextIcy == \E len \in EncLens : send_chunk(len)

InitFanout == InitIcy /\ LibAtRest

SpecIcy == InitFanout /\ [][NextIcy]_vars

(***************************************************************************)
(* fullrescan() on a database with files, RSS items and a play queue: the  *)
(* library thread has run its initscan, library_fullrescan() has set       *)
(* scanning and queued the command.                                        *)
(***************************************************************************)

\* the calls fullrescan() makes before the loop over the sources, with the
\* purge ahead of the snapshot; C20 tells it from the code's
fullrescan_calls_purge_first ==
  <<"player_playback_stop", "db_queue_clear", "db_purge_all",
    "db_rss_tmp_clone", "db_rss_tmp_restore">>

\* the calls fullrescan() makes before the loop over the sources, in the
\* order of the code
fullrescan_calls ==
  <<"player_playback_stop", "db_queue_clear", "db_rss_tmp_clone",
    "db_purge_all", "db_rss_tmp_restore">>

\* what the calls do to the player and the database
player_playback_stop(d) == [d EXCEPT !.playing = FALSE]
db_queue_clear(d) == [d EXCEPT !.queue = {}]
db_rss_tmp_clone(d) == [d EXCEPT !.rss_tmp = d.rss]
db_purge_all(d) == [d EXCEPT !.files = {}, !.rss = {}]
db_rss_tmp_restore(d) == [d EXCEPT !.rss = d.rss_tmp]

\* the call of that name
db_call(name, d) ==
  CASE name = "player_playback_stop" -> player_playback_stop(d)
    [] name = "db_queue_clear" -> db_queue_clear(d)
    [] name = "db_rss_tmp_clone" -> db_rss_tmp_clone(d)
    [] name = "db_purge_all" -> db_purge_all(d)
    [] name = "db_rss_tmp_restore" -> db_rss_tmp_restore(d)

\* fullrescan() taken from the command queue: the notification
fullrescan_start ==
  /\ UNCHANGED <<strvars, db>>
  /\ lib_pc = "dispatch"
  /\ cmdq # <<>>
  /\ Head(cmdq).fn = "fullrescan"
  /\ cmdq' = Tail(cmdq)
  /\ scan' = [kind |-> "fullrescan", i |-> 1, notes |-> 1, invoked |-> <<>>,
            purge |-> <<>>]
  /\ lib_pc' = "full_prologue"
  /\ last' = Step("scan_start", <<{LISTENER_UPDATE}>>, "fullrescan")
  /\ burst' = FALSE
  /\ UNCHANGED <<calls, scanning, deferred_update_notifications, deferred_update_events,
                 updateev, sources, pc, quiet, window>>

\* the next call of fullrescan() before the loop over the sources
fullrescan_prologue ==
  /\ UNCHANGED strvars
  /\ lib_pc = "full_prologue"
  /\ LET k == Len(db.done) + 1
     IN  /\ db' = [db_call(fullrescan_calls[k], db) EXCEPT
                     !.done = Append(@, fullrescan_calls[k])]
         /\ lib_pc' = IF k = Len(fullrescan_calls) THEN "scan_sources"
                      ELSE "full_prologue"
  /\ UNCHANGED <<calls, scanning, deferred_update_notifications, deferred_update_events,
                 updateev, cmdq, scan, sources, pc, last, quiet, window, burst>>

\* what is in the database and whether the player plays when the full rescan
\* is requested
Databases ==
  {[playing |-> p, queue |-> q, files |-> f, rss |-> r, rss_tmp |-> {},
    done |-> <<>>, files0 |-> f, rss0 |-> r] :
     p \in BOOLEAN, q \in SUBSET (1..MaxFiles), f \in SUBSET (1..MaxFiles),
     r \in SUBSET (1..MaxRss)}

InitFull ==
  /\ InitStream
  /\ scanning = TRUE
  /\ deferred_update_notifications = 0
  /\ deferred_update_events = {}
  /\ updateev = TimerOff
  /\ cmdq = commands_exec(<<>>, "fullrescan", {}, tid_library)
  /\ lib_pc = "dispatch"
  /\ scan = NoScan
  /\ sources \in [Sources -> SourceStates]
  /\ pc = [t \in Threads |-> "idle"]
  /\ calls = 0
  /\ last = Step("scan_exec", <<>>, "fullrescan")
  /\ quiet = library_update_wait
  /\ window = {}
  /\ burst = FALSE
  /\ db \in Databases

NextFull ==
  \/ fullrescan_start
  \/ fullrescan_prologue
  \/ \E mask \in SourceTriggerMasks \cup {{}} : scan_source(mask)
  \/ \E filescan_disable \in BOOLEAN : scan_clear(filescan_disable)
  \/ scan_end

SpecFull == InitFull /\ [][NextFull]_vars

(***************************************************************************)
(* The ICY title and the metablock: streaming_player_status_update() and   *)
(* streaming_icy_meta_create() on a registry of one session, with a title  *)
(* of any length stored by an earlier update.                              *)
(***************************************************************************)

\* the C integer division of non-negative operands, and uint8_t arithmetic
Max(a, b) == IF a > b THEN a ELSE b
uint8(x) == x % 256

\* the title streaming_player_status_update() stores for a queue item:
\* "title - artist" when both are there, else a copy of the one that is
\* there, or of the empty artist
icy_title(item) ==
  IF ~item.found THEN NoTitle
  ELSE IF item.title > 0 /\ item.artist > 0 THEN item.title + item.artist + 3
  ELSE IF item.title > 0 THEN item.title
  ELSE item.artist

\* (15 + titlelen)/16 + 1 as an int, before it is stored in the uint8_t
no16s_wide(titlelen) == (15 + titlelen) \div 16 + 1

\* uint8_t no16s = (15 + titlelen)/16 + 1
no16s_of(titlelen) == uint8((15 + titlelen) \div 16 + 1)

\* streaming_icy_meta_create(): the length byte, the length of the block, the
\* bytes of StreamTitle='<title>'; that lie in the block after the length
\* byte, and the bytes written behind the end of the buffer
streaming_icy_meta_create(title) ==
  IF title = NoTitle
  THEN [title |-> title, no16s |-> 0, buflen |-> 1, text |-> 0, overrun |-> 0]
  ELSE LET titlelen == Min(title, STREAMING_ICY_METALEN_MAX)
           no16s == no16s_of(titlelen)
           metalen == 1 + no16s * 16
           written_to == 14 + titlelen + 2
       IN  [title |-> title,
            no16s |-> no16s,
            buflen |-> metalen,
            text |-> Max(0, Min(written_to, metalen) - 1),
            overrun |-> Max(0, written_to - (STREAMING_ICY_METALEN_MAX + 1))]

\* streaming_player_status_update(): the id is what player_get_status()
\* reports, item what db_queue_fetch_byfileid() finds for it; the title is
\* refreshed when the id changed and an ICY client was counted
player_status_update(id, item) ==
  /\ UNCHANGED <<libvars, db, stream>>
  /\ id = 0 => ~item.found
  /\ streaming_player_id' = id
  /\ streaming_icy_title' =
       IF id # streaming_player_id /\ streaming_icy > 0
       THEN icy_title(item) ELSE streaming_icy_title
  /\ UNCHANGED <<streaming_sessions, streaming_icy, streaming_not_supported,
                 streaming_encode_ctx, streaming_quality, streaming_encoded_data,
                 streamingev, metaev, streaming_pipe, streaming_meta,
                 streaming_player_status, streaming_player_changed,
                 writer, written, engine, requests, replies, sends, metablock>>

\* streaming_icy_meta_splice() for an ICY session of the registry: the
\* metablock is made of the current title
icy_meta_splice ==
  /\ UNCHANGED <<libvars, db, stream>>
  /\ \E i \in 1..Len(streaming_sessions) : streaming_sessions[i].icy
  /\ metablock' = streaming_icy_meta_create(streaming_icy_title)
  /\ UNCHANGED <<streaming_sessions, streaming_icy, streaming_not_supported,
                 streaming_encode_ctx, streaming_quality, streaming_encoded_data,
                 streamingev, metaev, streaming_pipe, streaming_meta,
                 streaming_player_status, streaming_player_changed,
                 writer, written, engine, requests, replies, sends,
                 streaming_icy_title, streaming_player_id>>

InitMeta ==
  /\ LibAtRest
  /\ \E icy \in BOOLEAN : InitRegistry(1, icy)
  /\ streaming_icy_title \in {NoTitle} \cup 0..MaxTitleLen
  /\ streaming_player_id \in TrackIds
  /\ metablock = NoMetablock

NextMeta ==
  \/ \E id \in TrackIds, item \in QueueItems : player_status_update(id, item)
  \/ icy_meta_splice
  \/ \E wanticy \in BOOLEAN, oom \in BOOLEAN : streaming_request(wanticy, oom)

SpecMeta == InitMeta /\ [][NextMeta]_vars

(***************************************************************************)
(* httpd_streaming.c: the claims                                           *)
(***************************************************************************)

\* the sessions of the registry with the icy flag
IcySessions == {i \in 1..Len(streaming_sessions) : streaming_sessions[i].icy}

\* C1: the k-th metablock a client receives comes after exactly k x 8192 audio
\* bytes, whatever the lengths of the chunks fanned out to its session.
C1_IcySpacing ==
  \A i \in 1..Len(stream) :
    \A k \in 1..Len(stream[i].metas) :
      stream[i].metas[k] = k * STREAMING_ICY_METAINT

\* C2: streaming_icy is the number of sessions in the registry whose icy flag
\* is set, after every request, close callback and force-close.
C2_IcyCounter == streaming_icy = Cardinality(IcySessions)

\* C3: streamingev and metaev are each added exactly when the registry is not
\* empty.
C3_RegistryTimers ==
  /\ streamingev <=> streaming_sessions # <<>>
  /\ metaev <=> streaming_sessions # <<>>

\* every request was made, a session was accepted, and a quality record then
\* failed the decoder setup: the force-close emptied the registry
C3_Witness ==
  /\ requests = MaxRequests
  /\ streaming_not_supported
  /\ streaming_sessions = <<>>
  /\ streaming_encode_ctx = NULL
  /\ engine = "running"
  /\ ~streamingev
  /\ ~metaev

(***************************************************************************)
(* library.c: the claims                                                   *)
(***************************************************************************)

\* the steps the claims are about, told from a pair of states
ScanRequested == last'.op = "library_scan" /\ calls' = calls + 1
MutationRequested == last'.op = "library_mutation" /\ calls' = calls + 1
MutationExecuted == last'.op \in MutationOps /\ Len(cmdq') < Len(cmdq)
TriggerHandled == last'.op \in {"update_trigger", "scan_source"} /\ window' # window
TimerFired == last'.op = "update_trigger_cb" /\ updateev = 0 /\ updateev' = TimerOff

\* the scans accepted and not completed: a caller past the test of the flag,
\* a scan command in the queue, the scan the library thread is executing
AcceptedScans ==
  Cardinality({t \in Threads : pc[t] \in {"scan_set", "scan_exec"}})
  + Cardinality({k \in 1..Len(cmdq) : cmdq[k].fn \in ScanKinds})
  + (IF lib_pc \in {"scan_sources", "scan_end"} THEN 1 ELSE 0)

\* the sources that are not disabled, in registration order
RECURSIVE EnabledFrom(_)
EnabledFrom(i) ==
  IF i > NSources THEN <<>>
  ELSE IF sources[i].disabled THEN EnabledFrom(i + 1)
  ELSE <<i>> \o EnabledFrom(i + 1)

\* C4: a call of library_rescan, library_metarescan or library_fullrescan made
\* while scanning is true is ignored: it enqueues no command and leaves the
\* scanning flag, the deferred counter and mask, the timer, the command queue
\* and every thread where they were.
C4_ScanRequestIgnored ==
  [][(scanning /\ ScanRequested) =>
       /\ last'.val = "ignored"
       /\ UNCHANGED <<scanning, deferred_update_notifications, deferred_update_events,
                      updateev, cmdq, lib_pc, scan, sources, pc>>]_vars

C4_Witness ==
  /\ scanning
  /\ last.op = "library_scan"
  /\ last.val = "ignored"
  /\ cmdq # <<>>

\* C5: at no time is more than one accepted scan pending or executing.
C5_AtMostOneScan == AcceptedScans <= 1

\* C6: the update_trigger calls made outside any scan and less than 5 s apart
\* end in exactly one notification, whose mask is the OR of their masks.
C6_Coalescing ==
  [][(TimerFired /\ burst) => last'.out = <<window>>]_vars

\* C7: outside a scan every update_trigger arms the timer with 5 s; the
\* debounced notification is not emitted before 5 s have passed since the last
\* of them; when the timer fires the counter and the mask are both zero.
C7_DebounceTiming ==
  [][/\ (TriggerHandled /\ ~scanning) => updateev' = library_update_wait
     /\ TimerFired =>
          /\ last'.out # <<>> => quiet >= library_update_wait
          /\ deferred_update_notifications' = 0
          /\ deferred_update_events' = {}]_vars

\* C8: a debounced notification carries exactly the masks passed to
\* update_trigger since the deferred state was last flushed.
C8_WindowOnly ==
  [][(TimerFired /\ last'.out # <<>>) => last'.out = <<window>>]_vars

\* C9: a mutation function called while scanning is true returns -1 and
\* enqueues nothing; no source's mutation method runs while scanning is true.
C9_MutationGating ==
  [][/\ (scanning /\ MutationRequested) =>
          last'.val = "-1" /\ UNCHANGED <<cmdq, pc>>
     /\ (MutationExecuted /\ last'.invoked # <<>>) => ~scanning]_vars

\* C10, as the spec states it: a scan emits exactly one notification.
C10_OneNotification ==
  last.op = "scan_end" => last.notes = 1

\* C10, amended: a scan calls listener_notify exactly twice: UPDATE when it
\* starts, before any source is scanned, and one completion notification
\* after the scan method of every source that is not disabled has run; the
\* loop over the sources notifies nothing.
C10_TwoNotifications ==
  /\ last.op = "scan_start" =>
       last.out = <<{LISTENER_UPDATE}>> /\ scan.invoked = <<>> /\ scan.notes = 1
  /\ last.op \in {"scan_source", "scan_clear"} => last.out = <<>>
  /\ lib_pc \in {"scan_sources", "scan_end", "scan_notify"} => scan.notes = 1
  /\ last.op = "scan_end" =>
       /\ last.notes = 2
       /\ Len(last.out) = 1
       /\ last.invoked = EnabledFrom(1)

C10_Witness ==
  /\ last.op = "scan_end"
  /\ last.val = "fullrescan"
  /\ last.notes = 2
  /\ Len(last.invoked) = NSources

\* the step that emits the completion notification of a scan
ScanCompleted == lib_pc = "scan_notify" /\ lib_pc' = "dispatch"

\* the mask of the completion notification, from the counter at that moment
CompletionMask ==
  IF deferred_update_notifications > 0
  THEN <<{LISTENER_UPDATE, LISTENER_DATABASE}>>
  ELSE <<{LISTENER_UPDATE}>>

FramesEncoded ==
  /\ engine = "running" /\ engine' = "running"
  /\ streaming_pipe # <<>> /\ streaming_pipe' = <<>>
  /\ Len(streaming_sessions') = Len(streaming_sessions)
  /\ streaming_sessions' # streaming_sessions

\* C12: a PCM frame is only ever encoded with the context built for its own
\* quality: whatever the order in which the event loop services the metadata
\* pipe and the audio pipe, no frame of a new quality is encoded with the old
\* context and no frame of the old quality is encoded with the new one.
C12_QualitySwitchOrder ==
  [][FramesEncoded =>
       \A k \in 1..Len(streaming_pipe) : streaming_pipe[k] = streaming_encode_ctx]_vars
\* streaming_meta_cb() ran: it took a record from the metadata pipe, or it
\* ended the replies of the registry
QualityChange ==
  /\ engine = "running" /\ engine' = "running"
  /\ \/ streaming_meta # <<>> /\ streaming_meta' = Tail(streaming_meta)
     \/ requests' = requests /\ replies' # replies

QualityChangeFailed == QualityChange /\ streaming_encode_ctx' = NULL

QualityChangeDone == QualityChange /\ streaming_encode_ctx' # NULL

StreamRequested == requests' = requests + 1

\* C13: a quality change that fails to build the encoder sets not_supported;
\* the flag then stays set, and every streaming_request is answered 404 and
\* creates no session, until a quality change builds the encoder, which
\* clears the flag.
C13_StickyNotSupported ==
  [][/\ QualityChangeFailed => streaming_not_supported'
     /\ QualityChangeDone => ~streaming_not_supported'
     /\ (streaming_not_supported /\ ~QualityChangeDone) => streaming_not_supported'
     /\ (streaming_not_supported /\ StreamRequested) =>
          /\ replies'[requests'] = HTTP_NOTFOUND
          /\ streaming_sessions' = streaming_sessions]_vars

\* a request was answered 404, and a later quality change has built the
\* encoder and cleared the flag
C13_Witness ==
  /\ \E r \in 1..Len(replies) : replies[r] = HTTP_NOTFOUND
  /\ ~streaming_not_supported
  /\ streaming_encode_ctx # NULL
  /\ engine = "running"

\* C14: every quality change that fails marks not_supported and force-closes
\* all sessions: afterwards the registry is empty, the reply of each former
\* session was ended, and both events are deleted.
C14_FailureForceCloses ==
  [][QualityChangeFailed =>
       /\ streaming_not_supported'
       /\ streaming_sessions' = <<>>
       /\ \A i \in 1..Len(streaming_sessions) :
            replies'[streaming_sessions[i].req] = REPLY_END
       /\ ~streamingev'
       /\ ~metaev']_vars
(***************************************************************************)
(* httpd_streaming.c: the player thread                                    *)
(***************************************************************************)

\* the state of the engine apart from the position of the player thread
engine_state ==
  <<streaming_sessions, streaming_icy, streaming_not_supported,
    streaming_encode_ctx, streaming_quality, streaming_encoded_data,
    streamingev, metaev, streaming_meta, streaming_player_status,
    streaming_player_changed, engine, replies>>

\* streaming_write() is at the write of the PCM data and the audio pipe is
\* full: the write returns EAGAIN and the frame is dropped
FrameDropped ==
  /\ writer # NoQuality /\ writer' = NoQuality
  /\ engine = "running"
  /\ Len(streaming_pipe) >= MaxPipe

\* the player thread can take its next step in streaming_write() whatever the
\* state of the pipes and of the engine
NeverStalls ==
  /\ writer = NoQuality => \A quality \in Qualities : ENABLED streaming_write(quality)
  /\ writer # NoQuality => ENABLED streaming_write_pcm

\* C15 as stated: streaming_write() never waits, and a call that finds the
\* audio pipe full drops the frame and has changed neither the pipes nor any
\* engine state.
C15_DropChangesNothing ==
  /\ []NeverStalls
  /\ [][FrameDropped => /\ streaming_pipe' = streaming_pipe
                        /\ engine_state' = engine_state
                        /\ ~written]_vars

\* C15: streaming_write() never waits, whatever the fill state of the pipes
\* and the state of the engine; when the audio pipe is full the frame is
\* dropped, and the write leaves the audio pipe and all engine state as they
\* are; the quality record of a frame of another quality than the declared
\* one went into the metadata pipe before, and is not taken back.
C15_DropLeavesAudioPipe ==
  /\ []NeverStalls
  /\ [][FrameDropped => /\ streaming_pipe' = streaming_pipe
                        /\ engine_state' = engine_state]_vars

\* the call wrote the quality record of its frame and is at the write of the
\* PCM data with the audio pipe full
C15_Witness ==
  /\ writer # NoQuality
  /\ written
  /\ engine = "running"
  /\ Len(streaming_pipe) >= MaxPipe
  /\ streaming_meta # <<>>
(***************************************************************************)
(* httpd_streaming.c: the ICY metablock                                    *)
(***************************************************************************)

\* a metablock was created
MetablockSent == metablock # NoMetablock

\* C16: the metablock of a non-empty title of any length is a length byte n
\* followed by n x 16 payload bytes, at most 4081 bytes in all; the payload
\* holds the whole of StreamTitle='<title>'; (the title cut at 4080 bytes)
\* and zero padding; n has not wrapped in its 8 bits and nothing was written
\* behind the buffer.
C16_MetablockFormat ==
  (MetablockSent /\ metablock.title > 0) =>
    LET titlelen == Min(metablock.title, STREAMING_ICY_METALEN_MAX)
    IN  /\ metablock.buflen = 1 + metablock.no16s * 16
        /\ metablock.buflen <= STREAMING_ICY_METALEN_MAX + 1
        /\ metablock.text = 13 + titlelen + 2
        /\ metablock.no16s = no16s_wide(titlelen)
        /\ metablock.overrun = 0

\* C17: when the ICY title is empty - no track, no queue item, or a queue
\* item with neither title nor artist - the metablock is the single byte
\* 0x00.
C17_EmptyTitle ==
  (MetablockSent /\ metablock.title \in {NoTitle, 0}) =>
    /\ metablock.buflen = 1
    /\ metablock.no16s = 0
(***************************************************************************)
(* httpd_streaming.c: the fan-out                                          *)
(***************************************************************************)

\* C18: a fan-out with L encoded bytes sends each session of the registry,
\* with ICY or without and wherever it is in the list, exactly those L audio
\* bytes, so that all sessions have received the same audio; the shared
\* buffer is left as it is by every session but the last and is empty when
\* the fan-out ends.
C18_FanoutSameAudio ==
  [][\A len \in EncLens :
       send_chunk(len) =>
         LET L == streaming_encoded_data + len
             n == Len(streaming_sessions)
         IN  /\ \A i \in 1..n :
                  /\ stream'[i].audio = stream[i].audio + L
                  /\ stream'[i].audio = stream'[1].audio
                  /\ i < n => stream'[i].left = L
             /\ stream'[n].left = 0
             /\ streaming_encoded_data' = 0]_vars

\* every chunk was fanned out to a registry of several sessions, and a
\* session with ICY got a metablock in one of them
C18_Witness ==
  /\ sends = MaxChunks
  /\ Len(streaming_sessions) = MaxSessions
  /\ streaming_encoded_data = 0
  /\ \E i \in 1..Len(stream) : stream[i].metas # <<>>
  /\ \A i \in 1..Len(stream) : stream[i].audio = stream[1].audio /\ stream[i].audio > 0
(***************************************************************************)
(* httpd_streaming.c: the silence timer                                    *)
(***************************************************************************)

\* C19: with a session in the registry, an expiry of the silence timer whose
\* refreshed snapshot is PLAY_PAUSED encodes a block of zero PCM and sends what
\* the encoder returns to every session, also to a client that joined while
\* the player was paused and before any quality record was written; an expiry
\* whose snapshot is not PLAY_PAUSED sends nothing and changes no bytes_sent.
C19_SilenceWhilePaused ==
  [][\A ret \in EncodeResults, status \in PlayStatus \cup {NoStatus} :
       streaming_send_cb_timeout(ret, status) =>
         IF streaming_player_status' = "PLAY_PAUSED"
         THEN ret > 0 =>
                \A i \in 1..Len(streaming_sessions) :
                  streaming_sessions'[i].bytes_sent # streaming_sessions[i].bytes_sent
         ELSE streaming_sessions' = streaming_sessions]_vars
(***************************************************************************)
(* library.c: the full rescan                                              *)
(***************************************************************************)

\* the full rescan is past the calls that come before the loop over the
\* sources
ProloguePassed ==
  /\ scan.kind = "fullrescan"
  /\ lib_pc \in {"scan_sources", "scan_end", "scan_notify"}

\* C20: before the fullrescan method of any source is invoked, fullrescan()
\* has stopped the playback, cleared the queue, taken the snapshot of the RSS
\* items, purged the library tables and restored the snapshot, in this order;
\* every RSS item that was there before is there after the purge, and the
\* play queue is empty.
C20_FullRescanKeepsRss ==
  /\ lib_pc = "full_prologue" => scan.invoked = <<>>
  /\ ProloguePassed =>
       /\ db.done = <<"player_playback_stop", "db_queue_clear", "db_rss_tmp_clone",
                      "db_purge_all", "db_rss_tmp_restore">>
       /\ db.rss0 \subseteq db.rss
       /\ db.queue = {}
       /\ ~db.playing

\* a full rescan of a database with files, RSS items and a queue, while the
\* player played: the sources were called, the files are purged and the RSS
\* items are there
C20_Witness ==
  /\ ProloguePassed
  /\ lib_pc = "scan_notify"
  /\ scan.invoked # <<>>
  /\ db.rss0 # {} /\ db.rss = db.rss0
  /\ db.files0 # {} /\ db.files = {}
  /\ db.queue = {}
(***************************************************************************)
(* library.c: the mutation commands                                        *)
(***************************************************************************)

\* the source is not disabled and has the method of the command
Eligible(i) == ~sources[i].disabled /\ sources[i].mutators

\* the library thread is about to take a command of these from the queue
CommandDue(ops) == lib_pc = "dispatch" /\ cmdq # <<>> /\ Head(cmdq).fn \in ops

\* the sources called are eligible and come in registration order
InOrder(inv) ==
  \A k \in 1..Len(inv) : Eligible(inv[k]) /\ (k > 1 => inv[k - 1] < inv[k])

\* the sources called are the eligible ones up to the first of those in
\* stop, and none behind it
UpToFirst(inv, stop) ==
  /\ \A i \in Sources :
       (Eligible(i) /\ \A j \in stop : i <= j) => \E k \in 1..Len(inv) : inv[k] = i
  /\ \A k \in 1..Len(inv) : \A j \in stop : inv[k] <= j

\* C21: playlist_item_add, playlist_remove and queue_save try the sources in
\* registration order, skip the disabled ones and those without the method,
\* call no source after the first that returns LIBRARY_OK; the result is
\* LIBRARY_OK iff a source that was called returned LIBRARY_OK, and
\* LIBRARY_ERROR when no source was eligible.
C21_PlaylistDispatch ==
  [][CommandDue(PlaylistOps) =>
       \A res \in [Sources -> SourceResults] :
         command_mutation(res) =>
           LET inv == last'.invoked
           IN  /\ InOrder(inv)
               /\ UpToFirst(inv, {i \in Sources : Eligible(i) /\ res[i] = LIBRARY_OK})
               /\ last'.val = LIBRARY_OK <=>
                    \E k \in 1..Len(inv) : res[inv[k]] = LIBRARY_OK
               /\ (\A i \in Sources : ~Eligible(i)) => last'.val = LIBRARY_ERROR]_vars

\* the first source failed, the second one returned LIBRARY_OK
C21_Witness ==
  /\ last.op \in PlaylistOps
  /\ last.val = LIBRARY_OK
  /\ last.invoked = <<1, 2>>

\* C22: a playlist mutation or a queue save notifies STORED_PLAYLIST exactly
\* once when its result is LIBRARY_OK and nothing when it is not; a call
\* rejected because a scan is running enqueues and notifies nothing, and the
\* request thread itself notifies nothing.
C22_StoredPlaylistOnce ==
  [][/\ (MutationExecuted /\ last'.op \in PlaylistOps) =>
          last'.out = IF last'.val = LIBRARY_OK
                        THEN <<{LISTENER_STORED_PLAYLIST}>> ELSE <<>>
     /\ (scanning /\ MutationRequested) =>
          /\ last'.val = "-1"
          /\ cmdq' = cmdq
     /\ last'.op \in {"library_mutation", "mutation_exec"} => last'.out = <<>>]_vars

\* a queue save succeeded and notified STORED_PLAYLIST
C22_Witness ==
  /\ last.op = "queue_save"
  /\ last.val = LIBRARY_OK
  /\ last.out = <<{LISTENER_STORED_PLAYLIST}>>

\* C23: queue_item_add asks the next source only while the result is
\* LIBRARY_PATH_INVALID: the first eligible source that returns LIBRARY_OK or
\* another value ends the loop, no source behind it is called and its value is
\* the result; the result is LIBRARY_PATH_INVALID when every eligible source
\* declined the path or none was eligible; nothing is notified.
C23_QueueItemAdd ==
  [][CommandDue({"queue_item_add"}) =>
       \A res \in [Sources -> SourceResults] :
         command_mutation(res) =>
           LET inv == last'.invoked
           IN  /\ InOrder(inv)
               /\ UpToFirst(inv, {i \in Sources : Eligible(i)
                                                   /\ res[i] # LIBRARY_PATH_INVALID})
               /\ last'.val = IF inv = <<>> THEN LIBRARY_PATH_INVALID
                              ELSE res[inv[Len(inv)]]
               /\ (\A k \in 1..Len(inv) : res[inv[k]] = LIBRARY_PATH_INVALID) =>
                    last'.val = LIBRARY_PATH_INVALID
               /\ last'.out = <<>>]_vars

\* the first source returned LIBRARY_ERROR and the second one, which has the
\* method, was not asked
C23_Witness ==
  /\ last.op = "queue_item_add"
  /\ last.val = LIBRARY_ERROR
  /\ last.invoked = <<1>>
  /\ Eligible(2)
(***************************************************************************)
(* library.c: library_update_trigger()                                     *)
(***************************************************************************)

\* the update_trigger commands in the queue
QueuedTriggers == {k \in 1..Len(cmdq) : cmdq[k].fn = "update_trigger"}

\* C24: library_update_trigger called on the library thread, from the scan
\* method of a source, runs update_trigger at once: the counter and the mask
\* are updated when it returns and nothing is enqueued; called on another
\* thread it only appends the command, sent asynchronously, and leaves the
\* counter, the mask and the timer alone; in neither case does the caller
\* wait: the scan goes on, the request thread is idle again, and no thread
\* ever waits for an update_trigger command.
C24_ReentrantTrigger ==
  /\ [](\A k \in QueuedTriggers : cmdq[k].from = tid_library)
  /\ [][/\ \A mask \in SourceTriggerMasks :
            scan_source(mask) =>
              /\ cmdq' = cmdq
              /\ deferred_update_notifications' = deferred_update_notifications + 1
              /\ deferred_update_events' = deferred_update_events \cup mask
              /\ lib_pc' # lib_pc \/ scan'.i = scan.i + 1
        /\ \A t \in Threads, mask \in TriggerMasks :
            library_update_trigger(t, mask) =>
              /\ cmdq' = Append(cmdq, [fn |-> "update_trigger", arg |-> mask,
                                       from |-> tid_library])
              /\ UNCHANGED <<deferred_update_notifications, deferred_update_events,
                             updateev, lib_pc, scan>>
              /\ pc'[t] = "idle"]_vars

\* a source has called library_update_trigger from its scan method while the
\* command of a request thread waits in the queue
C24_Witness ==
  /\ last.op = "scan_source"
  /\ scanning
  /\ deferred_update_notifications > 0
  /\ window # {}
  /\ QueuedTriggers # {}
(***************************************************************************)
(* library.c: the loop over the sources and the purge                      *)
(***************************************************************************)

\* the sources up to the n-th that are not disabled, in registration order
RECURSIVE EnabledUpTo(_)
EnabledUpTo(n) ==
  IF n = 0 THEN <<>>
  ELSE EnabledUpTo(n - 1) \o (IF sources[n].disabled THEN <<>> ELSE <<n>>)

\* C27: a scan calls the scan method of each source that is not disabled
\* exactly once and in registration order, whatever the sources before it did
\* (their return value is not looked at), and never the scan method of a
\* disabled source; the disabled flag set by library_init is not cleared.
C27_ScanEverySource ==
  /\ [](lib_pc \in {"scan_sources", "scan_end", "scan_notify"} =>
          scan.invoked = EnabledUpTo(scan.i - 1))
  /\ [](lib_pc \in {"scan_end", "scan_notify"} => scan.i = NSources + 1)
  /\ [][/\ ScanCompleted => last'.invoked = EnabledUpTo(NSources)
        /\ \A i \in Sources : sources[i].disabled => sources'[i].disabled]_vars

\* a scan with a disabled source ahead of one that is not: the loop is over
\* and only the second was called
C27_Witness ==
  /\ lib_pc = "scan_notify"
  /\ sources[1].disabled
  /\ ~sources[2].disabled
  /\ scan.invoked = <<2>>

\* C28: a scan that is neither fullrescan nor initscan skips purge_cruft when
\* filescan_disable is true; every other scan runs purge_cruft and then the
\* post-scan database hook, after the loop over the sources and before
\* scanning is cleared.
C28_PurgeStep ==
  [][\A filescan_disable \in BOOLEAN :
       scan_clear(filescan_disable) =>
         scan'.purge =
           IF scan.kind \notin {"fullrescan", "initscan"} /\ filescan_disable
           THEN <<>>
           ELSE <<"purge_cruft", "db_hook_post_scan">>]_vars
(***************************************************************************)
(* library.c: update_trigger during a scan                                 *)
(***************************************************************************)

\* update_trigger() runs while scanning is true: as a command of a request
\* thread, or called by a source from its scan method
TriggerInScan ==
  /\ scanning
  /\ \/ command_update_trigger
     \/ \E mask \in SourceTriggerMasks : scan_source(mask)

\* C29: an update_trigger handled during a scan increments the deferred
\* counter and ORs its mask into the accumulated mask and leaves the timer as
\* it is; the completion of the scan flushes what was accumulated - the
\* counter and the mask are zero after it - and a timer that fires with no
\* update_trigger since then notifies nothing.
C29_TriggerDuringScan ==
  [][/\ TriggerInScan =>
          /\ deferred_update_notifications' = deferred_update_notifications + 1
          /\ deferred_update_events \subseteq deferred_update_events'
          /\ updateev' = updateev
     /\ ScanCompleted =>
          /\ deferred_update_notifications' = 0
          /\ deferred_update_events' = {}
     /\ (TimerFired /\ window = {}) => last'.out = <<>>]_vars
(***************************************************************************)
(* httpd_streaming.c: bytes_sent                                           *)
(***************************************************************************)

\* C30: for every session with ICY, after every fan-out bytes_sent is the
\* number of audio bytes sent to the session since its creation modulo 8192,
\* and so lies in 0..8191; in a fan-out that sends the session no metablock
\* bytes_sent does not decrease.
C30_BytesSentModulo ==
  /\ [](\A i \in IcySessions :
          LET b == streaming_sessions[i].bytes_sent
          IN  /\ b = stream[i].audio % STREAMING_ICY_METAINT
              /\ b \in 0..(STREAMING_ICY_METAINT - 1))
  /\ [][\A i \in IcySessions :
          Len(stream'[i].metas) = Len(stream[i].metas) =>
            streaming_sessions'[i].bytes_sent >= streaming_sessions[i].bytes_sent]_vars
(***************************************************************************)
(* httpd_streaming.c: the sessions that have left the registry             *)
(***************************************************************************)

\* the requests that have a session in the registry
Registered == {streaming_sessions[i].req : i \in 1..Len(streaming_sessions)}

\* the registry is drained and the reply of each of its sessions has been
\* ended by this step
DrainedNow ==
  /\ streaming_sessions' = <<>>
  /\ \A r \in Registered : replies'[r] = REPLY_END

\* C25: the reply of a request that has no session in the registry - the
\* client has disconnected, the session was force-closed, the engine is torn
\* down - is left as it is by every operation; a session in the registry has
\* a reply that was started and not ended, each request has at most one
\* session, and the force-close after a failed read or decoder setup and the
\* teardown end the reply of every session, once, and leave the registry
\* empty.
C25_NoUseAfterRemoval ==
  /\ [](\A i \in 1..Len(streaming_sessions) :
          /\ replies[streaming_sessions[i].req] = HTTP_OK
          /\ \A k \in 1..Len(streaming_sessions) :
               streaming_sessions[k].req = streaming_sessions[i].req => k = i)
  /\ [][/\ replies' # replies =>
             \A r \in 1..requests : r \notin Registered => replies'[r] = replies[r]
        /\ (engine = "running" /\ engine' = "deinit") => DrainedNow
        /\ (metaev /\ streaming_not_supported' /\ requests' = requests) =>
             \A setup \in {"short_read", "no_decoder"} :
               streaming_meta_cb(setup) => DrainedNow]_vars

\* one client has disconnected and the session of another was force-closed:
\* the reply of the first is as the request left it, that of the second was
\* ended, the registry is empty
C25_Witness ==
  /\ streaming_sessions = <<>>
  /\ engine = "running"
  /\ \E r \in 1..requests : replies[r] = HTTP_OK
  /\ \E r \in 1..requests : replies[r] = REPLY_END

C31_TitleRefresh ==
  [][/\ \A id \in TrackIds, item \in QueueItems :
          (player_status_update(id, item) /\ id # streaming_player_id) =>
            streaming_icy_title' = icy_title(item)
     /\ metablock' # metablock => metablock'.title = streaming_icy_title]_vars

(***************************************************************************)
(* httpd_streaming.c: a request that is turned down                        *)
(***************************************************************************)

\* C32: a streaming request answered with 404 (streaming not supported) or
\* with 503 (no memory for the session) adds no session and leaves the
\* registry, the ICY counter and the armed state of both events as they were.
C32_RejectedRequestUnchanged ==
  [][(StreamRequested /\ replies'[requests'] \in {HTTP_NOTFOUND, HTTP_SERVUNAVAIL}) =>
       UNCHANGED <<streaming_sessions, streaming_icy, streamingev, metaev>>]_vars

(***************************************************************************)
(* library.c: the scanning flag and the scan bodies                        *)
(***************************************************************************)

\* library_is_scanning()
library_is_scanning == scanning

\* a scan that is accepted and whose body has not finished: the caller has
\* set the flag and not yet queued the command, the command is in the queue,
\* or the library thread is in the body (the loop over the sources and what
\* follows it up to scanning = false)
ScanPending ==
  \/ \E t \in Threads : pc[t] = "scan_exec"
  \/ \E k \in 1..Len(cmdq) : cmdq[k].fn \in ScanKinds
  \/ lib_pc \in {"scan_sources", "scan_end"}

\* C33: library_is_scanning() returns true from the moment a scan is
\* accepted (or initscan has started) until the body of that scan has
\* finished on the library thread; no scan body executes while the flag is
\* false.
C33_FlagCoversScan == ScanPending => library_is_scanning

(***************************************************************************)
(* httpd_streaming.c: the encoder context                                  *)
(***************************************************************************)

\* the audio event or the silence timer can run and encode_buffer() would
\* get as far as transcode_encode(): what the encoder returns is what
\* encode_buffer() returns
EncoderInvoked ==
  /\ engine = "running"
  /\ streamingev
  /\ \A ret \in EncodeResults :
       encode_buffer(streaming_not_supported, streaming_quality, ret) = ret

\* C35: transcode_encode() is only invoked with a non-null encoder context
\* that was built for the declared streaming_quality; after every quality
\* change either the context is non-null, streaming_quality is the record
\* read and not_supported is false, or the context is null and
\* not_supported is true.
C35_EncoderValid ==
  /\ [](EncoderInvoked =>
          /\ streaming_encode_ctx # NULL
          /\ streaming_encode_ctx = streaming_quality)
  /\ [][QualityChange =>
          \/ /\ streaming_encode_ctx' # NULL
             /\ streaming_encode_ctx' = Head(streaming_meta)
             /\ streaming_quality' = Head(streaming_meta)
             /\ ~streaming_not_supported'
          \/ /\ streaming_encode_ctx' = NULL
             /\ streaming_not_supported']_vars

\* a quality change failed and a request was answered 404, a later one built
\* the encoder, and the encoder was then used for a chunk sent to a session
C35_Witness ==
  /\ EncoderInvoked
  /\ \E r \in 1..Len(replies) : replies[r] = HTTP_NOTFOUND
  /\ \E i \in 1..Len(streaming_sessions) : streaming_sessions[i].bytes_sent > 0

(***************************************************************************)
(* library.c: delivery of the deferred events                              *)
(***************************************************************************)

\* what the library thread does: the scans, the commands of its queue and
\* the timer callback
LibraryThread ==
  \/ initscan_start
  \/ scan_start
  \/ \E mask \in SourceTriggerMasks \cup {{}} : scan_source(mask)
  \/ \E filescan_disable \in BOOLEAN : scan_clear(filescan_disable)
  \/ scan_end
  \/ command_update_trigger
  \/ \E res \in [Sources -> SourceResults] : command_mutation(res)
  \/ update_trigger_cb

\* the library thread keeps running and time passes; the request threads
\* may stop calling at any time
SpecLibFair ==
  Init /\ [][NextLib]_vars /\ WF_vars(LibraryThread) /\ WF_vars(Tick)

\* the step just taken passed event e to listener_notify()
Delivered(e) == \E k \in 1..Len(last.out) : e \in last.out[k]

\* C34: no update is lost: every event bit of the mask of an update_trigger
\* call is eventually delivered in a listener notification, the debounced
\* one or the one a scan completes with, provided the library thread keeps
\* running.
C34_NoUpdateLost ==
  \A e \in {LISTENER_DATABASE, LISTENER_STORED_PLAYLIST} :
    (e \in window) ~> Delivered(e)

(***************************************************************************)
(* httpd_streaming.c: after streaming_not_supported was set                *)
(***************************************************************************)

\* streaming_request() for the client of request r, which asks again when it
\* has no session: its request was turned down, its reply was ended or its
\* connection closed. The handler is the same; the request takes the place
\* of the earlier one. The ICY counter is never decremented for a session
\* that was drained or not allocated: requests with ICY are made while it is
\* below MaxRequests
streaming_request_again(r, wanticy, oom) ==
  /\ UNCHANGED <<libvars, db, stream, icyvars>>
  /\ engine = "running"
  /\ r \in 1..Len(replies)
  /\ \A i \in 1..Len(streaming_sessions) : streaming_sessions[i].req # r
  /\ wanticy => streaming_icy < MaxRequests
  /\ replies' = [replies EXCEPT ![r] = request_reply(streaming_not_supported, oom)]
  /\ IF request_reply(streaming_not_supported, oom) = HTTP_NOTFOUND
     THEN /\ UNCHANGED <<streaming_sessions, streaming_icy, streamingev, metaev>>
     ELSE /\ streaming_icy' = IF wanticy THEN streaming_icy + 1 ELSE streaming_icy
          /\ IF request_reply(streaming_not_supported, oom) = HTTP_SERVUNAVAIL
             THEN /\ UNCHANGED <<streaming_sessions, streamingev, metaev>>
             ELSE /\ streamingev' = (streaming_sessions = <<>> \/ streamingev)
                  /\ metaev' = (streaming_sessions = <<>> \/ metaev)
                  /\ streaming_sessions' =
                       <<streaming_session(r, wanticy)>> \o streaming_sessions
  /\ UNCHANGED <<streaming_not_supported, streaming_encode_ctx, streaming_quality,
                 streaming_encoded_data, streaming_pipe, streaming_meta,
                 streaming_player_status, streaming_player_changed,
                 writer, written, engine, requests, sends>>

\* the engine while it runs: the requests and the requests made again, the
\* disconnects, the quality changes and the player's writes; the fan-out,
\* which changes bytes_sent and the buffer only, and the teardown are left
\* out
NextRecover ==
  \/ \E wanticy \in BOOLEAN, oom \in BOOLEAN : streaming_request(wanticy, oom)
  \/ \E r \in 1..MaxRequests, wanticy \in BOOLEAN, oom \in BOOLEAN :
       streaming_request_again(r, wanticy, oom)
  \/ \E i \in 1..MaxRequests : streaming_close_cb(i)
  \/ \E setup \in MetaResults : streaming_meta_cb(setup)
  \/ \E quality \in Qualities : streaming_write(quality)
  \/ streaming_write_pcm

\* a client asks for the stream, for the first time or again, and memory
\* for the session is there
ClientRequests ==
  \/ \E wanticy \in BOOLEAN : streaming_request(wanticy, FALSE)
  \/ \E r \in 1..MaxRequests, wanticy \in BOOLEAN :
       streaming_request_again(r, wanticy, FALSE)

\* the player writes PCM, with the quality record in front when
\* streaming_write() finds the quality changed
PlayerWrites ==
  \/ \E quality \in Qualities : streaming_write(quality)
  \/ streaming_write_pcm

\* clients keep requesting, the player keeps writing, and the event loop
\* runs the metadata callback whenever a record is readable; the quality is
\* a supported one, so that the encoder can be built again and again
SpecRecover ==
  /\ InitStreaming
  /\ [][NextRecover]_vars
  /\ SF_vars(ClientRequests)
  /\ SF_vars(PlayerWrites)
  /\ SF_vars(streaming_meta_cb("ok"))

\* C36: the engine recovers from not_supported: when the flag is set, and
\* clients keep requesting the stream and the player keeps writing PCM of a
\* supported quality, a quality change that clears the flag is eventually
\* processed and a request is accepted: the flag is clear and a session is
\* in the registry.
C36_Recovers ==
  streaming_not_supported ~> (~streaming_not_supported /\ streaming_sessions # <<>>)
=============================================================================
